---- MODULE Spec2Model ----
(***************************************************************************)
(* Hexapod edge sensor pod firmware                                        *)
(* (services/hexapod-edge/firmware/src/main.cpp): the adaptive policy      *)
(* engine, the downlink command handler, the radio callbacks and the       *)
(* device-state loop that drives them, for one power-on run of the device. *)
(*                                                                         *)
(* Units.  Durations, intervals and the clock are in milliseconds, as in   *)
(* the source.  Values of the uint32_t clock reach 2^32 - 1, beyond the    *)
(* integers TLC computes with, so a uint32_t clock value is held as two    *)
(* 16-bit limbs [hi, lo] (value = hi * 2^16 + lo) and the arithmetic on    *)
(* it is mod 2^32.  Float quantities are held as scaled integers:          *)
(* anomaly_score and confidence in thousandths, battery_voltage in         *)
(* millivolts.                                                             *)
(*                                                                         *)
(* Scope.  A behaviour is one run from setup() on.  enterDeepSleep does    *)
(* not return (esp_deep_sleep_start), so a cycle that calls it is the last *)
(* step of the run: the state stays as processLocalDecisions left it, with *)
(* sleepTimeSeconds # 0.  A cycle is one atomic step (the firmware is      *)
(* single-threaded); callbacks and downlinks happen between cycles.  Time  *)
(* passes while the device waits: for the join, and for the duty-cycle     *)
(* timer.  sendPending, lastDownlink, sendFailed, alertFired and ticks     *)
(* record what happened; the firmware does not read them.                  *)
(*                                                                         *)
(* Spec, SpecAnyConfidence and SpecAnyReading follow the policy: their     *)
(* cycles take the battery voltage and the anomaly score, which is all the *)
(* policy reads of a snapshot, and leave the payload out.  SpecFrame       *)
(* follows cycles with the whole snapshot and the payload prepareTxFrame   *)
(* builds from it.  SpecSleepDuration runs calculateSleepDuration over the *)
(* values it can be handed.                                                *)
(***************************************************************************)
EXTENDS Integers, Sequences, FiniteSets, TLC

VARIABLES
  deviceState,          \* LoRaWAN device state driving loop()
  deviceJoined,         \* bool deviceJoined
  lastTransmission,     \* uint32_t lastTransmission (ms, two limbs)
  transmissionInterval, \* uint32_t transmissionInterval (ms)
  failedTransmissions,  \* uint8_t failedTransmissions
  emergencyMode,        \* bool emergencyMode
  currentReading,       \* SensorData currentReading (the fields the policy reads)
  aiResult,             \* EdgeAIResult aiResult
  now,                  \* millis(): the uint32_t device clock (ms, two limbs)
  sleepTimeSeconds,     \* 0 while running; the argument of enterDeepSleep once called
  sendPending,          \* the last cycle called LoRaWAN.send(); its result callback has not fired
  lastDownlink,         \* the latest downlink delivered since the last completed cycle
  sendFailed,           \* the latest send failed and no cycle has completed since
  alertFired,           \* the latest cycle ran the emergency activation message and LED flashes
  appData,              \* the payload handed to the radio stack (appDataSize is its length)
  ticks                 \* number of waits (join, duty-cycle timer) so far; bounds the model

vars == <<deviceState, deviceJoined, lastTransmission, transmissionInterval,
          failedTransmissions, emergencyMode, currentReading, aiResult, now,
          sleepTimeSeconds, sendPending, lastDownlink, sendFailed, alertFired,
          appData, ticks>>

----------------------------------------------------------------------------
(* Bounds of the model *)

\* waits (for the join, for the duty-cycle timer) in one run
MaxTicks == 2
\* cap on failedTransmissions reached in one run
MaxFailed == 1
\* longest downlink buffer delivered
MaxBufferSize == 2

----------------------------------------------------------------------------
(* uint32_t arithmetic on two 16-bit limbs *)

Limb == 2^16

U32(n) == [hi |-> n \div Limb, lo |-> n % Limb]

Zero32 == U32(0)

Add32(a, b) ==
  LET lo == a.lo + b.lo
      hi == a.hi + b.hi + (lo \div Limb)
  IN  [hi |-> hi % Limb, lo |-> lo % Limb]

Sub32(a, b) ==
  LET lo == a.lo - b.lo
      borrow == IF lo < 0 THEN 1 ELSE 0
      hi == a.hi - b.hi - borrow
  IN  [hi |-> hi % Limb, lo |-> lo % Limb]

Geq32(a, b) == a.hi > b.hi \/ (a.hi = b.hi /\ a.lo >= b.lo)

Less32(a, b) == ~Geq32(a, b)

----------------------------------------------------------------------------
(* Inputs *)

\* battery_voltage readings, in millivolts
Voltages == {2900, 3050, 3700}

\* anomaly scores, in thousandths
Scores == {100, 450, 700, 900}

\* the confidence runEdgeAI assigns (0.8), in thousandths
PlaceholderConfidence == 800

\* confidences a confidence estimator could report, in thousandths
Confidences == {700, 800}

\* how long after power-on the join succeeds, in ms: one minute, or (after a
\* long run of failed joins) one minute short of the 2^32 ms at which the
\* clock wraps
JoinTimes == {U32(60 * 1000), [hi |-> Limb - 1, lo |-> Limb - 60 * 1000]}

\* how long the duty-cycle timer runs, in ms: one minute or thirty
SleepDurations == {U32(60 * 1000), U32(30 * 60 * 1000)}

\* downlink bytes
CommandBytes == {1, 2, 3, 4, 5}
ValueBytes == {0, 10, 255}

----------------------------------------------------------------------------
(* readAllSensors and runEdgeAI: the parts the policy reads *)

\* mutant: the last test of the curve is strict (voltage > 3.0)
CalculateBatteryLevelStrict(voltage) ==
  IF voltage >= 3700 THEN 100
  ELSE IF voltage >= 3500 THEN 80
  ELSE IF voltage >= 3300 THEN 60
  ELSE IF voltage >= 3200 THEN 40
  ELSE IF voltage >= 3100 THEN 20
  ELSE IF voltage > 3000 THEN 10
  ELSE 0

\* calculateBatteryLevel: the discharge curve, voltage in millivolts
CalculateBatteryLevel(voltage) ==
  IF voltage >= 3700 THEN 100
  ELSE IF voltage >= 3500 THEN 80
  ELSE IF voltage >= 3300 THEN 60
  ELSE IF voltage >= 3200 THEN 40
  ELSE IF voltage >= 3100 THEN 20
  ELSE IF voltage >= 3000 THEN 10
  ELSE 0

\* readAllSensors: battery_voltage and the battery_level derived from it
ReadAllSensors(voltage) ==
  [battery_voltage |-> voltage, battery_level |-> CalculateBatteryLevel(voltage)]

\* mutant: the tests are inclusive (score <= 0.3, <= 0.6, <= 0.8)
RiskLevelInclusive(score) ==
  IF score <= 300 THEN 0
  ELSE IF score <= 600 THEN 1
  ELSE IF score <= 800 THEN 2
  ELSE 3

\* runEdgeAI: the risk level of an anomaly score (thousandths)
RiskLevel(score) ==
  IF score < 300 THEN 0
  ELSE IF score < 600 THEN 1
  ELSE IF score < 800 THEN 2
  ELSE 3

\* runEdgeAI: the result record; the source assigns confidence = 0.8
RunEdgeAI(score, confidence) ==
  [anomaly_score |-> score, risk_level |-> RiskLevel(score), confidence |-> confidence]

----------------------------------------------------------------------------
(* processLocalDecisions *)

\* CRITICAL_BATTERY_THRESHOLD 3.0, in millivolts
CriticalBatteryThreshold == 3000

\* mutant: the confidence test admits 0.7 itself
EmergencyConditionInclusive(ai) == ai.risk_level = 3 /\ ai.confidence >= 700

\* the condition of the emergency branch: risk_level == 3 && confidence > 0.7
EmergencyCondition(ai) == ai.risk_level = 3 /\ ai.confidence > 700

\* mutant: emergency mode is left as soon as risk_level drops to medium
EmergencyStepExitsAtMedium(em, ti, ai) ==
  IF EmergencyCondition(ai)
  THEN IF ~em
       THEN [emergencyMode |-> TRUE, transmissionInterval |-> 1 * 60 * 1000,
             alert |-> TRUE]
       ELSE [emergencyMode |-> em, transmissionInterval |-> ti, alert |-> FALSE]
  ELSE IF em /\ ai.risk_level <= 1
       THEN [emergencyMode |-> FALSE, transmissionInterval |-> 30 * 60 * 1000,
             alert |-> FALSE]
       ELSE [emergencyMode |-> em, transmissionInterval |-> ti, alert |-> FALSE]

\* mutant: the activation block is not guarded by !emergencyMode
EmergencyStepLevelTriggered(em, ti, ai) ==
  IF EmergencyCondition(ai)
  THEN [emergencyMode |-> TRUE, transmissionInterval |-> 1 * 60 * 1000,
        alert |-> TRUE]
  ELSE IF em /\ ai.risk_level = 0
       THEN [emergencyMode |-> FALSE, transmissionInterval |-> 30 * 60 * 1000,
             alert |-> FALSE]
       ELSE [emergencyMode |-> em, transmissionInterval |-> ti, alert |-> FALSE]

\* the if / else-if on emergency mode: the flag, the interval it assigns and
\* whether the activation side effects (message, LED flashes) ran
EmergencyStep(em, ti, ai) ==
  IF EmergencyCondition(ai)
  THEN IF ~em
       THEN [emergencyMode |-> TRUE, transmissionInterval |-> 1 * 60 * 1000,
             alert |-> TRUE]
       ELSE [emergencyMode |-> em, transmissionInterval |-> ti, alert |-> FALSE]
  ELSE IF em /\ ai.risk_level = 0
       THEN [emergencyMode |-> FALSE, transmissionInterval |-> 30 * 60 * 1000,
             alert |-> FALSE]
       ELSE [emergencyMode |-> em, transmissionInterval |-> ti, alert |-> FALSE]

\* mutant: the low-risk else branch is missing, so a low-risk cycle keeps the
\* interval it finds
TierIntervalKeepsAtLowRisk(ti, ai) ==
  IF ai.risk_level >= 2 THEN 5 * 60 * 1000
  ELSE IF ai.risk_level = 1 THEN 15 * 60 * 1000
  ELSE ti

\* "Adjust transmission interval based on risk": assigned on every call,
\* whatever the emergency branch assigned before it
TierInterval(ti, ai) ==
  IF ai.risk_level >= 2 THEN 5 * 60 * 1000
  ELSE IF ai.risk_level = 1 THEN 15 * 60 * 1000
  ELSE 30 * 60 * 1000

\* mutant: the interval is doubled only below battery_level 10
BatteryAdjustBelowTen(ti, reading) ==
  IF reading.battery_level < 10 THEN ti * 2 ELSE ti

\* "Battery-based adjustments": transmissionInterval *= 2 (uint32_t; the
\* operand is at most 30 min, so the product never wraps)
BatteryAdjust(ti, reading) ==
  IF reading.battery_level < 20 THEN ti * 2 ELSE ti

\* mutant: the test is against LOW_BATTERY_THRESHOLD (3.2 V)
DeepSleepRequestLowBattery(reading) ==
  IF reading.battery_voltage < 3200 THEN 4 * 60 * 60 ELSE 0

\* "Power management decisions": the argument of enterDeepSleep, 0 when not called
DeepSleepRequest(reading) ==
  IF reading.battery_voltage < CriticalBatteryThreshold THEN 4 * 60 * 60 ELSE 0

\* the whole function: the state it leaves
ProcessLocalDecisions(em, ti, ai, reading) ==
  LET e == EmergencyStep(em, ti, ai)
  IN  [emergencyMode |-> e.emergencyMode,
       transmissionInterval |->
         BatteryAdjust(TierInterval(e.transmissionInterval, ai), reading),
       alert |-> e.alert,
       sleepTimeSeconds |-> DeepSleepRequest(reading)]

----------------------------------------------------------------------------
(* shouldTransmitData *)

\* mutant: the elapsed time is not taken mod 2^32 (0 once the clock has wrapped)
ShouldTransmitDataNoWrap(t, last, em, ti, ai) ==
  LET timeSinceLastTx == IF Geq32(t, last) THEN Sub32(t, last) ELSE Zero32
  IN  IF em THEN TRUE
      ELSE IF Geq32(timeSinceLastTx, U32(ti)) THEN TRUE
      ELSE IF ai.risk_level >= 2 THEN TRUE
      ELSE FALSE

\* t is millis() at the call
ShouldTransmitData(t, last, em, ti, ai) ==
  LET timeSinceLastTx == Sub32(t, last)
  IN  IF em THEN TRUE
      ELSE IF Geq32(timeSinceLastTx, U32(ti)) THEN TRUE
      ELSE IF ai.risk_level >= 2 THEN TRUE
      ELSE FALSE

----------------------------------------------------------------------------
(* prepareTxFrame *)

\* (x >> 8) & 0xFF and x & 0xFF of a 16-bit quantity, signed or unsigned
HighByte(x) == (x \div 2^8) % 2^8
LowByte(x) == x % 2^8

\* (int16_t)(value * scale), the product given in tenths: the cast drops the
\* fraction (rounds toward zero)
CastInt16(tenths) ==
  IF tenths >= 0 THEN tenths \div 10 ELSE -((-tenths) \div 10)

\* the 13 casts of the measurements array, in its order
Measurements(reading) ==
  <<CastInt16(reading.tilt_x), CastInt16(reading.tilt_y), CastInt16(reading.tilt_z),
    CastInt16(reading.accel_x), CastInt16(reading.accel_y), CastInt16(reading.accel_z),
    CastInt16(reading.gyro_x), CastInt16(reading.gyro_y), CastInt16(reading.gyro_z),
    CastInt16(reading.pore_pressure), CastInt16(reading.temperature),
    CastInt16(reading.humidity), CastInt16(reading.strain_gauge)>>

\* the for loop over measurements: two bytes each, high byte first
MeasurementBytes(measurements, i) ==
  IF i % 2 = 1 THEN HighByte(measurements[(i + 1) \div 2])
  ELSE LowByte(measurements[i \div 2])

\* mutant: the measurements array lacks tilt_z (12 entries)
PrepareTxFrameWithoutTiltZ(reading, ai, em) ==
  LET measurements == <<CastInt16(reading.tilt_x), CastInt16(reading.tilt_y),
                        CastInt16(reading.accel_x), CastInt16(reading.accel_y),
                        CastInt16(reading.accel_z), CastInt16(reading.gyro_x),
                        CastInt16(reading.gyro_y), CastInt16(reading.gyro_z),
                        CastInt16(reading.pore_pressure),
                        CastInt16(reading.temperature),
                        CastInt16(reading.humidity),
                        CastInt16(reading.strain_gauge)>>
  IN  <<(reading.timestamp \div 2^24) % 2^8, (reading.timestamp \div 2^16) % 2^8,
        (reading.timestamp \div 2^8) % 2^8, reading.timestamp % 2^8>>
      \o reading.latitude \o reading.longitude \o reading.elevation
      \o [i \in 1..24 |-> MeasurementBytes(measurements, i)]
      \o <<reading.quality_flags, reading.battery_level,
           (reading.signal_strength + 128) % 2^8>>
      \o <<HighByte(ai.anomaly_score), LowByte(ai.anomaly_score), ai.risk_level,
           HighByte(ai.confidence), LowByte(ai.confidence),
           IF em THEN 1 ELSE 0>>

\* prepareTxFrame: the payload, in the order of payload[index++]; its length
\* is appDataSize.  A float copied by memcpy is its 4 bytes; anomaly_score and
\* confidence, held in thousandths, are their own (uint16_t)(x * 1000).
PrepareTxFrame(reading, ai, em) ==
  <<(reading.timestamp \div 2^24) % 2^8, (reading.timestamp \div 2^16) % 2^8,
    (reading.timestamp \div 2^8) % 2^8, reading.timestamp % 2^8>>
  \o reading.latitude \o reading.longitude \o reading.elevation
  \o [i \in 1..26 |-> MeasurementBytes(Measurements(reading), i)]
  \o <<reading.quality_flags, reading.battery_level,
       (reading.signal_strength + 128) % 2^8>>
  \o <<HighByte(ai.anomaly_score), LowByte(ai.anomaly_score), ai.risk_level,
       HighByte(ai.confidence), LowByte(ai.confidence),
       IF em THEN 1 ELSE 0>>

----------------------------------------------------------------------------
(* Downlink handling *)

\* the policy state the downlink handler can touch
PolicyState ==
  [transmissionInterval |-> transmissionInterval,
   lastTransmission |-> lastTransmission,
   emergencyMode |-> emergencyMode,
   failedTransmissions |-> failedTransmissions]

\* a buffer of `size` bytes: command byte, value byte, then zero padding
Buffer(command, value, size) ==
  [i \in 1..size |-> IF i = 1 THEN command ELSE IF i = 2 THEN value ELSE 0]

\* mutant: the value byte is taken as seconds
HandleDownlinkCommandSeconds(ps, buffer, size) ==
  IF size < 2 THEN ps
  ELSE LET command == buffer[1]
           value == buffer[2]
       IN  CASE command = 1 -> [ps EXCEPT !.transmissionInterval = value * 1000]
             [] command = 2 -> [ps EXCEPT !.lastTransmission = Zero32]
             [] OTHER -> ps

\* mutant: case 0x01 lacks its break and falls through into case 0x02
HandleDownlinkCommandFallthrough(ps, buffer, size) ==
  IF size < 2 THEN ps
  ELSE LET command == buffer[1]
           value == buffer[2]
       IN  CASE command = 1 -> [ps EXCEPT !.transmissionInterval = value * 60 * 1000,
                                          !.lastTransmission = Zero32]
             [] command = 2 -> [ps EXCEPT !.lastTransmission = Zero32]
             [] OTHER -> ps

\* mutant: no length check; a missing value byte reads as 0
HandleDownlinkCommandNoLengthCheck(ps, buffer, size) ==
  IF size < 1 THEN ps
  ELSE LET command == buffer[1]
           value == IF size >= 2 THEN buffer[2] ELSE 0
       IN  CASE command = 1 -> [ps EXCEPT !.transmissionInterval = value * 60 * 1000]
             [] command = 2 -> [ps EXCEPT !.lastTransmission = Zero32]
             [] OTHER -> ps

\* handleDownlinkCommand: the policy state it leaves
HandleDownlinkCommand(ps, buffer, size) ==
  IF size < 2 THEN ps
  ELSE LET command == buffer[1]
           value == buffer[2]
       IN  CASE command = 1 -> [ps EXCEPT !.transmissionInterval = value * 60 * 1000]
             [] command = 2 -> [ps EXCEPT !.lastTransmission = Zero32]
             [] command = 3 -> ps
             [] command = 4 -> ps
             [] OTHER -> ps

\* downLinkDataHandle: passes non-empty buffers on
DownLinkDataHandle(ps, buffer, size) ==
  IF size > 0 THEN HandleDownlinkCommand(ps, buffer, size) ELSE ps

----------------------------------------------------------------------------
(* The state after setup(): the globals as initialised, the clock at 0 *)

Init ==
  /\ deviceState = "INIT"
  /\ deviceJoined = FALSE
  /\ lastTransmission = Zero32
  /\ transmissionInterval = 30 * 60 * 1000
  /\ failedTransmissions = 0
  /\ emergencyMode = FALSE
  /\ currentReading = [battery_voltage |-> 0, battery_level |-> 0]
  /\ aiResult = [anomaly_score |-> 0, risk_level |-> 0, confidence |-> 0]
  /\ now = Zero32
  /\ sleepTimeSeconds = 0
  /\ sendPending = FALSE
  /\ lastDownlink = "none"
  /\ sendFailed = FALSE
  /\ alertFired = FALSE
  /\ appData = <<>>
  /\ ticks = 0

\* the processor runs: esp_deep_sleep_start() has not been called
Awake == sleepTimeSeconds = 0

----------------------------------------------------------------------------
(* loop() and the callbacks *)

\* case DEVICE_STATE_INIT
LoopInit ==
  /\ Awake
  /\ deviceState = "INIT"
  /\ deviceState' = "JOIN"
  /\ UNCHANGED <<deviceJoined, lastTransmission, transmissionInterval,
                 failedTransmissions, emergencyMode, currentReading, aiResult, now,
                 sleepTimeSeconds, sendPending, lastDownlink, sendFailed,
                 alertFired, appData, ticks>>

\* case DEVICE_STATE_JOIN, the join succeeding after joining took `joinTime`
OnJoinSuccess(joinTime) ==
  /\ Awake
  /\ deviceState = "JOIN"
  /\ ticks < MaxTicks
  /\ deviceJoined' = TRUE
  /\ deviceState' = "SEND"
  /\ now' = Add32(now, joinTime)
  /\ ticks' = ticks + 1
  /\ UNCHANGED <<lastTransmission, transmissionInterval, failedTransmissions,
                 emergencyMode, currentReading, aiResult, sleepTimeSeconds,
                 sendPending, lastDownlink, sendFailed, alertFired, appData>>

LoopJoin == \E joinTime \in JoinTimes : OnJoinSuccess(joinTime)

\* case DEVICE_STATE_JOIN, the join failing
OnJoinFailed ==
  /\ Awake
  /\ deviceState = "JOIN"
  /\ failedTransmissions < MaxFailed
  /\ failedTransmissions' = (failedTransmissions + 1) % 2^8
  /\ deviceState' = "JOIN"
  /\ UNCHANGED <<deviceJoined, lastTransmission, transmissionInterval,
                 emergencyMode, currentReading, aiResult, now, sleepTimeSeconds,
                 sendPending, lastDownlink, sendFailed, alertFired, appData, ticks>>

\* case DEVICE_STATE_SEND: performSensorCycle, then deviceState = CYCLE.
\* enterDeepSleep does not return: the run ends inside processLocalDecisions.
\* The reading is the part of the snapshot the policy reads, and the payload
\* is not followed: PerformSensorCycleWithFrame is the cycle with both.
PerformSensorCycle(voltage, score, confidence) ==
  /\ Awake
  /\ deviceState = "SEND"
  /\ LET reading == ReadAllSensors(voltage)
         ai == RunEdgeAI(score, confidence)
         d == ProcessLocalDecisions(emergencyMode, transmissionInterval, ai, reading)
         transmit == ShouldTransmitData(now, lastTransmission, d.emergencyMode,
                                        d.transmissionInterval, ai)
     IN  /\ currentReading' = reading
         /\ aiResult' = ai
         /\ emergencyMode' = d.emergencyMode
         /\ transmissionInterval' = d.transmissionInterval
         /\ sleepTimeSeconds' = d.sleepTimeSeconds
         /\ alertFired' = d.alert
         /\ IF d.sleepTimeSeconds # 0
            THEN UNCHANGED <<deviceState, lastTransmission, sendPending,
                             lastDownlink, sendFailed>>
            ELSE /\ deviceState' = "CYCLE"
                 /\ sendPending' = transmit
                 /\ lastTransmission' = IF transmit THEN now ELSE lastTransmission
                 /\ lastDownlink' = "none"
                 /\ sendFailed' = FALSE
  /\ UNCHANGED <<deviceJoined, failedTransmissions, now, ticks, appData>>

\* the cycle as the source runs it: runEdgeAI assigns confidence = 0.8
LoopSend ==
  \E voltage \in Voltages, score \in Scores :
    PerformSensorCycle(voltage, score, PlaceholderConfidence)

\* the cycle with the confidence a confidence estimator could report
LoopSendAnyConfidence ==
  \E voltage \in Voltages, score \in Scores, confidence \in Confidences :
    PerformSensorCycle(voltage, score, confidence)

\* case DEVICE_STATE_CYCLE: LoRaWAN.cycle(sleepDuration) arms the duty-cycle
\* timer, whose expiry, `sleepDuration` later, puts the device back into
\* DEVICE_STATE_SEND
TxNextPacketTimer(sleepDuration) ==
  /\ Awake
  /\ deviceState = "CYCLE"
  /\ ticks < MaxTicks
  /\ deviceState' = "SEND"
  /\ now' = Add32(now, sleepDuration)
  /\ ticks' = ticks + 1
  /\ UNCHANGED <<deviceJoined, lastTransmission, transmissionInterval,
                 failedTransmissions, emergencyMode, currentReading, aiResult,
                 sleepTimeSeconds, sendPending, lastDownlink, sendFailed,
                 alertFired, appData>>

LoopCycle == \E sleepDuration \in SleepDurations : TxNextPacketTimer(sleepDuration)

OnSendSuccess ==
  /\ Awake
  /\ sendPending
  /\ failedTransmissions' = 0
  /\ deviceState' = "CYCLE"
  /\ sendPending' = FALSE
  /\ sendFailed' = FALSE
  /\ UNCHANGED <<deviceJoined, lastTransmission, transmissionInterval,
                 emergencyMode, currentReading, aiResult, now, sleepTimeSeconds,
                 lastDownlink, alertFired, appData, ticks>>

OnSendFailed ==
  /\ Awake
  /\ sendPending
  /\ failedTransmissions < MaxFailed
  /\ failedTransmissions' = (failedTransmissions + 1) % 2^8
  /\ deviceState' = "CYCLE"
  /\ sendPending' = FALSE
  /\ sendFailed' = TRUE
  /\ UNCHANGED <<deviceJoined, lastTransmission, transmissionInterval,
                 emergencyMode, currentReading, aiResult, now, sleepTimeSeconds,
                 lastDownlink, alertFired, appData, ticks>>

\* what a delivered buffer is to the handler: too short to decode, or its command
DownlinkKind(buffer) ==
  IF Len(buffer) < 2 THEN "short"
  ELSE CASE buffer[1] = 1 -> "0x01"
         [] buffer[1] = 2 -> "0x02"
         [] buffer[1] = 3 -> "0x03"
         [] buffer[1] = 4 -> "0x04"
         [] OTHER -> "unknown"

\* the buffers the radio stack delivers
Buffers ==
  {Buffer(command, value, size) :
     command \in CommandBytes, value \in ValueBytes, size \in 0..MaxBufferSize}

\* the radio stack delivers a downlink (Buffer, BufferSize) to downLinkDataHandle;
\* it does so between two cycles, while the joined device waits for its timer
Downlink(buffer) ==
  /\ Awake
  /\ deviceJoined
  /\ deviceState = "CYCLE"
  /\ LET ps == DownLinkDataHandle(PolicyState, buffer, Len(buffer))
     IN  /\ transmissionInterval' = ps.transmissionInterval
         /\ lastTransmission' = ps.lastTransmission
         /\ emergencyMode' = ps.emergencyMode
         /\ failedTransmissions' = ps.failedTransmissions
  /\ lastDownlink' = DownlinkKind(buffer)
  /\ UNCHANGED <<deviceState, deviceJoined, currentReading, aiResult, now,
                 sleepTimeSeconds, sendPending, sendFailed, alertFired, appData, ticks>>

OnDownlink == \E buffer \in Buffers : Downlink(buffer)

Next ==
  \/ LoopInit
  \/ LoopJoin
  \/ OnJoinFailed
  \/ LoopSend
  \/ LoopCycle
  \/ OnSendSuccess
  \/ OnSendFailed
  \/ OnDownlink

Spec == Init /\ [][Next]_vars

NextAnyConfidence ==
  \/ LoopInit
  \/ LoopJoin
  \/ OnJoinFailed
  \/ LoopSendAnyConfidence
  \/ LoopCycle
  \/ OnSendSuccess
  \/ OnSendFailed
  \/ OnDownlink

\* the program with the confidence placeholder replaced by any estimate
SpecAnyConfidence == Init /\ [][NextAnyConfidence]_vars

----------------------------------------------------------------------------
(* Steps of a behaviour, as seen from the two states of the step *)

\* performSensorCycle ran (its inputs are the reading and result it left),
\* to its end or into enterDeepSleep
CycleStep ==
  /\ deviceState = "SEND"
  /\ PerformSensorCycle(currentReading'.battery_voltage, aiResult'.anomaly_score,
                        aiResult'.confidence)

\* performSensorCycle ran to its end
CycleCompleted == CycleStep /\ sleepTimeSeconds' = 0

----------------------------------------------------------------------------
(* C1 *)

\* C1: every completed cycle that leaves emergencyMode true leaves
\* transmissionInterval at 60000 ms, whatever the risk tier and the battery level.
C1_EmergencyIntervalOneMinute ==
  [][(CycleCompleted /\ emergencyMode') => transmissionInterval' = 1 * 60 * 1000]_vars

----------------------------------------------------------------------------
(* C2 *)

\* C2: a cycle that starts outside emergency mode enters it exactly when its
\* risk_level is 3 and its confidence is strictly above 0.7, and nothing but a
\* cycle turns emergencyMode on.
C2_EmergencyEntry ==
  [][/\ (CycleStep /\ ~emergencyMode) =>
          (emergencyMode' <=>
             (aiResult'.risk_level = 3 /\ aiResult'.confidence > 700))
     /\ (~emergencyMode /\ emergencyMode') => CycleStep]_vars

\* a cycle with risk_level 3 and confidence exactly 0.7 ran outside emergency
\* mode and left it off
C2_Witness ==
  /\ deviceState = "CYCLE"
  /\ ~emergencyMode
  /\ aiResult.risk_level = 3
  /\ aiResult.confidence = 700

----------------------------------------------------------------------------
(* C3 *)

\* C3: once emergencyMode is true, a step clears it exactly when it is a cycle
\* with risk_level 0: no other cycle, no downlink and no callback clears it,
\* and a risk_level 0 cycle always does.
C3_EmergencyExit ==
  [][emergencyMode =>
       (~emergencyMode' <=> (CycleStep /\ aiResult'.risk_level = 0))]_vars

\* a cycle with risk_level 3 and confidence <= 0.7 has run and the device is
\* in emergency mode: it was in it before, and the cycle kept it
C3_Witness ==
  /\ deviceState = "CYCLE"
  /\ emergencyMode
  /\ aiResult.risk_level = 3
  /\ aiResult.confidence <= 700

----------------------------------------------------------------------------
(* C4 *)

\* the tier of a risk level, in minutes
TierMinutes(risk) == IF risk >= 2 THEN 5 ELSE IF risk = 1 THEN 15 ELSE 30

\* C4: a completed cycle that ends outside emergency mode leaves
\* transmissionInterval at the tier of its risk_level, doubled when its
\* battery_level is below 20, whatever the interval was before.
C4_TierTimesBattery ==
  [][(CycleCompleted /\ ~emergencyMode') =>
       transmissionInterval' =
         TierMinutes(aiResult'.risk_level) * 60000
           * (IF currentReading'.battery_level < 20 THEN 2 ELSE 1)]_vars

\* a risk_level 0 cycle on a low battery ended outside emergency mode with the
\* 30-minute tier doubled to 60 minutes
C4_Witness ==
  /\ deviceState = "CYCLE"
  /\ lastDownlink = "none"
  /\ ~emergencyMode
  /\ aiResult.risk_level = 0
  /\ currentReading.battery_level < 20
  /\ transmissionInterval = 60 * 60000

----------------------------------------------------------------------------
(* C5 *)

\* the tier values of the interval (1, 5, 15, 30 minutes) and their doubles
TierOrDoubled ==
  {m * 60000 : m \in {1, 5, 15, 30}} \cup {2 * m * 60000 : m \in {1, 5, 15, 30}}

\* what a 0x01 downlink can set: v minutes for a value byte v
OverrideIntervals == {v * 60000 : v \in 0..255}

\* C5 as stated: in every reachable state transmissionInterval is a tier value
\* or a doubled tier value, and never 0.
C5_AlwaysTierValue == transmissionInterval \in TierOrDoubled

\* C5 as amended: every cycle leaves transmissionInterval at a tier value or a
\* doubled tier value; between cycles a 0x01 downlink, and nothing else, may
\* set it to v minutes for any value byte v, 0 included.
C5_TierValueOrOverride ==
  [][/\ CycleStep => transmissionInterval' \in TierOrDoubled
     /\ transmissionInterval' \in TierOrDoubled \cup OverrideIntervals
     /\ transmissionInterval' # transmissionInterval =>
          (CycleStep \/ lastDownlink' = "0x01")]_vars

\* a 0x01 downlink with value 0 has left the interval at 0
C5_Witness == lastDownlink = "0x01" /\ transmissionInterval = 0

----------------------------------------------------------------------------
(* C6 *)

\* C6: a completed cycle does not transmit exactly when, after its policy step,
\* emergencyMode is false, the time since lastTransmission (mod 2^32) is
\* strictly less than transmissionInterval and risk_level is below 2; the
\* decision itself changes nothing: the policy state is as processLocalDecisions
\* left it, and lastTransmission moves only when the cycle transmits.
C6_ShouldTransmit ==
  [][CycleCompleted =>
       /\ ~sendPending' <=>
            /\ ~emergencyMode'
            /\ Less32(Sub32(now, lastTransmission), U32(transmissionInterval'))
            /\ aiResult'.risk_level < 2
       /\ lastTransmission' = IF sendPending' THEN now ELSE lastTransmission
       /\ LET d == ProcessLocalDecisions(emergencyMode, transmissionInterval,
                                         aiResult', currentReading')
          IN  /\ emergencyMode' = d.emergencyMode
              /\ transmissionInterval' = d.transmissionInterval
       /\ UNCHANGED <<failedTransmissions, now>>]_vars

\* a cycle did not transmit after the clock had wrapped past lastTransmission:
\* the elapsed time is small only when taken mod 2^32
C6_Witness ==
  /\ deviceState = "CYCLE"
  /\ lastDownlink = "none"
  /\ ~sendPending
  /\ ~emergencyMode
  /\ aiResult.risk_level < 2
  /\ Less32(now, lastTransmission)
  /\ Less32(Sub32(now, lastTransmission), U32(transmissionInterval))

----------------------------------------------------------------------------
(* C7 *)

\* C7: when the latest downlink before a cycle is a 0x02 command, the cycle, if
\* it completes, transmits.
C7_ForcedTransmission ==
  [][(lastDownlink = "0x02" /\ CycleCompleted) => sendPending']_vars

----------------------------------------------------------------------------
(* C8 *)

\* C8: when the latest downlink before a cycle is a 0x03 command (maintenance
\* mode), the cycle changes neither emergencyMode nor transmissionInterval.
C8_MaintenanceSuppressesPolicy ==
  [][(lastDownlink = "0x03" /\ CycleStep) =>
       UNCHANGED <<emergencyMode, transmissionInterval>>]_vars

----------------------------------------------------------------------------
(* C9, C10 *)

\* a downlink can be delivered in this state
DownlinkEnabled == Awake /\ deviceJoined /\ deviceState = "CYCLE"

\* the largest value of the int the handler multiplies in
MaxInt32 == (2^30 - 1) * 2 + 1

\* C9: wherever a downlink can be delivered, a buffer of 2 or more bytes with
\* command 0x01 and any value byte v sets transmissionInterval to v * 60000,
\* which fits 32 bits, and changes nothing else of the policy state.
C9_IntervalOverride ==
  DownlinkEnabled =>
    \A v \in 0..255, size \in 2..MaxBufferSize :
      LET ps == DownLinkDataHandle(PolicyState, Buffer(1, v, size), size)
      IN  /\ ps.transmissionInterval = v * 60000
          /\ ps.transmissionInterval <= MaxInt32
          /\ ps.lastTransmission = lastTransmission
          /\ ps.emergencyMode = emergencyMode
          /\ ps.failedTransmissions = failedTransmissions

\* a 0x01 downlink with value 10 was handled after a cycle on a full battery
\* (whose tiers are 5, 15 and 30 minutes): the interval is 600000 ms
C9_Witness ==
  /\ lastDownlink = "0x01"
  /\ currentReading.battery_level = 100
  /\ transmissionInterval = 600000

\* C10: wherever a downlink can be delivered, a buffer of 0 or 1 bytes,
\* whatever its first byte, leaves the whole policy state as it was.
C10_ShortBufferIgnored ==
  DownlinkEnabled =>
    \A first \in 0..255, size \in 0..1 :
      DownLinkDataHandle(PolicyState, Buffer(first, 0, size), size) = PolicyState

\* a buffer shorter than 2 bytes has been delivered
C10_Witness == lastDownlink = "short"

----------------------------------------------------------------------------
(* calculateSleepDuration *)

\* calculateSleepDuration, reading aiResult.risk_level, currentReading.battery_level
\* and millis() = t.  millis() / 3600000 is taken on the limbs as
\* (t / 128) / 28125.  baseSleep *= 0.7 multiplies in double and truncates; on
\* the four bases that reach it the result is exactly baseSleep * 7 / 10.
CalculateSleepDuration(risk_level, battery_level, t) ==
  LET baseSleep == CASE risk_level = 3 -> 30 * 1000
                     [] risk_level = 2 -> 2 * 60 * 1000
                     [] risk_level = 1 -> 5 * 60 * 1000
                     [] OTHER -> 15 * 60 * 1000
      adjusted == IF battery_level < 20 THEN baseSleep * 2
                  ELSE IF battery_level < 10 THEN baseSleep * 4
                  ELSE baseSleep
      hour == (((t.hi * 512 + t.lo \div 128) \div 28125) % 24)
      isDaytime == hour >= 6 /\ hour <= 18
  IN  IF isDaytime /\ battery_level > 80 THEN (adjusted * 7) \div 10 ELSE adjusted

\* values of the uint8_t battery_level the function is called with
BatteryLevelBytes == {0, 5, 9, 10, 15, 19, 20, 60, 80, 81, 100, 255}

\* values of millis() at the call: the hours 0, 5, 6, 12, 18 and 19 of the
\* first day, noon of the second day, and the last millisecond before the
\* clock wraps
SleepClocks ==
  {U32(h * 60 * 60 * 1000) : h \in {0, 5, 6, 12, 18, 19, 36}}
    \cup {[hi |-> Limb - 1, lo |-> Limb - 1]}

\* loop() in DEVICE_STATE_CYCLE, about to call calculateSleepDuration, for any
\* values of the three quantities the function reads
InitSleepDuration ==
  /\ deviceState = "CYCLE"
  /\ deviceJoined = TRUE
  /\ lastTransmission = Zero32
  /\ transmissionInterval = 30 * 60 * 1000
  /\ failedTransmissions = 0
  /\ emergencyMode = FALSE
  /\ \E battery_level \in BatteryLevelBytes :
       currentReading = [battery_voltage |-> 0, battery_level |-> battery_level]
  /\ \E score \in Scores : aiResult = RunEdgeAI(score, PlaceholderConfidence)
  /\ now \in SleepClocks
  /\ sleepTimeSeconds = 0
  /\ sendPending = FALSE
  /\ lastDownlink = "none"
  /\ sendFailed = FALSE
  /\ alertFired = FALSE
  /\ appData = <<>>
  /\ ticks = 0

\* case DEVICE_STATE_CYCLE with the timer running for exactly the calculated
\* duration: sleepDuration = calculateSleepDuration(); LoRaWAN.cycle(sleepDuration)
LoopCycleCalculated ==
  TxNextPacketTimer(U32(CalculateSleepDuration(aiResult.risk_level,
                                               currentReading.battery_level, now)))

\* calculateSleepDuration on its own, over the values it can be handed
SpecSleepDuration == InitSleepDuration /\ [][LoopCycleCalculated]_vars

----------------------------------------------------------------------------
(* C11 *)

\* the risk base of the sleep duration, in ms
SleepBase(risk_level) ==
  CASE risk_level = 3 -> 30 * 1000
    [] risk_level = 2 -> 2 * 60 * 1000
    [] risk_level = 1 -> 5 * 60 * 1000
    [] OTHER -> 15 * 60 * 1000

\* the one battery band a battery_level falls in
BatteryBand(battery_level) ==
  IF battery_level < 10 THEN 4 ELSE IF battery_level < 20 THEN 2 ELSE 1

\* C11: the duty-cycle timer is armed with the risk base times exactly one
\* battery band (4 below battery_level 10, 2 from 10 to 19, 1 from 20 on); a
\* battery_level of 80 or less leaves that product as it is whatever the hour.
C11_OneBatteryBand ==
  [][(deviceState = "CYCLE" /\ deviceState' = "SEND"
        /\ currentReading.battery_level <= 80) =>
       Sub32(now', now) =
         U32(SleepBase(aiResult.risk_level)
               * BatteryBand(currentReading.battery_level))]_vars

----------------------------------------------------------------------------
(* C12 *)

\* C12: a cycle requests the low-power hold exactly when its battery_voltage is
\* below 3.0 V, and then for 14400 s; that cycle issues no send and leaves
\* lastTransmission and the device state alone; nothing but a cycle requests
\* a hold, and once a hold is requested no further step runs.
C12_CriticalBatteryHold ==
  [][/\ sleepTimeSeconds = 0
     /\ CycleStep =>
          /\ currentReading'.battery_voltage < 3000 => sleepTimeSeconds' = 14400
          /\ currentReading'.battery_voltage >= 3000 => sleepTimeSeconds' = 0
          /\ sleepTimeSeconds' # 0 =>
               UNCHANGED <<lastTransmission, sendPending, deviceState>>
     /\ sleepTimeSeconds' # 0 => CycleStep]_vars

\* a cycle read a battery_voltage below 3.0 V and requested the 4 hour hold
C12_Witness ==
  /\ sleepTimeSeconds = 14400
  /\ currentReading.battery_voltage < 3000
  /\ deviceState = "SEND"

----------------------------------------------------------------------------
(* C13 *)

\* C13: every success the radio stack reports (join or send) leaves
\* failedTransmissions at 0, and only such a success lowers the counter.
C13_SuccessResetsCounter ==
  [][/\ (LoopJoin \/ OnSendSuccess) => failedTransmissions' = 0
     /\ failedTransmissions' < failedTransmissions =>
          (LoopJoin \/ OnSendSuccess)]_vars

----------------------------------------------------------------------------
(* C14 *)

\* C14: onSendFailed issues no send itself, and the first cycle that completes
\* after a failed send transmits, whatever its risk level and the time elapsed.
C14_RetryOnNextCycle ==
  [][/\ OnSendFailed => ~sendPending'
     /\ (sendFailed /\ CycleCompleted) => sendPending']_vars

----------------------------------------------------------------------------
(* The program over the whole range of the battery voltage and the score *)

\* battery_voltage readings, in millivolts: the ends of the ADC range (0 V and
\* 6.6 V) and both sides of every threshold of the discharge curve
AllVoltages ==
  {0, 2999, 3000, 3099, 3100, 3199, 3200, 3299, 3300, 3499, 3500, 3699, 3700,
   6600}

\* anomaly scores, in thousandths: the ends of [0, 1] and each threshold with
\* its two neighbours
AllScores == {0, 299, 300, 301, 599, 600, 601, 799, 800, 801, 1000}

LoopSendAnyReading ==
  \E voltage \in AllVoltages, score \in AllScores :
    PerformSensorCycle(voltage, score, PlaceholderConfidence)

NextAnyReading ==
  \/ LoopInit
  \/ LoopJoin
  \/ OnJoinFailed
  \/ LoopSendAnyReading
  \/ LoopCycleCalculated
  \/ OnSendSuccess
  \/ OnSendFailed

\* the program over the wider inputs, its timer running for the calculated
\* sleep duration; downlinks are left out (the handler writes neither the
\* reading nor the inference result)
SpecAnyReading == Init /\ [][NextAnyReading]_vars

----------------------------------------------------------------------------
(* C15 *)

\* C15: the risk_level held with an anomaly score is 0 when the score is below
\* 0.3, 1 from 0.3 to below 0.6, 2 from 0.6 to below 0.8 and 3 from 0.8 on, for
\* every score in [0, 1]: each threshold value itself maps to the higher level.
C15_RiskBands ==
  LET s == aiResult.anomaly_score
      r == aiResult.risk_level
  IN  /\ s \in 0..1000
      /\ r \in 0..3
      /\ r = 0 <=> s < 300
      /\ r = 1 <=> (300 <= s /\ s < 600)
      /\ r = 2 <=> (600 <= s /\ s < 800)
      /\ r = 3 <=> s >= 800

\* a cycle scored exactly 0.6 and holds risk_level 2 (high)
C15_Witness ==
  /\ deviceState = "CYCLE"
  /\ aiResult.anomaly_score = 600
  /\ aiResult.risk_level = 2

----------------------------------------------------------------------------
(* C20 *)

\* C20: battery_level is one of 0, 10, 20, 40, 60, 80, 100 and is 0 exactly
\* when battery_voltage is below 3.0 V; once a cycle has completed (the device
\* is in DEVICE_STATE_CYCLE, where calculateSleepDuration is called)
\* battery_level is at least 10; and battery_level above 80 is battery_level 100.
C20_BatteryLevels ==
  LET level == currentReading.battery_level
  IN  /\ level \in {0, 10, 20, 40, 60, 80, 100}
      /\ level = 0 <=> currentReading.battery_voltage < 3000
      /\ deviceState = "CYCLE" => level >= 10
      /\ level > 80 => level = 100

\* a cycle read exactly 3.0 V, holds battery_level 10 and completed
C20_Witness ==
  /\ deviceState = "CYCLE"
  /\ currentReading.battery_voltage = 3000
  /\ currentReading.battery_level = 10

----------------------------------------------------------------------------
(* C18 *)

\* C18: a cycle runs the emergency activation side effects exactly when it
\* takes emergencyMode from false to true; a cycle that begins in emergency
\* mode never runs them, whatever its risk_level and confidence.
C18_AlertEdgeTriggered ==
  [][CycleStep =>
       /\ alertFired' <=> (~emergencyMode /\ emergencyMode')
       /\ emergencyMode => ~alertFired']_vars

\* a cycle with risk_level 3 and confidence above 0.7 ended in emergency mode
\* without running the side effects: it began in emergency mode
C18_Witness ==
  /\ deviceState = "CYCLE"
  /\ emergencyMode
  /\ aiResult.risk_level = 3
  /\ aiResult.confidence > 700
  /\ ~alertFired

----------------------------------------------------------------------------
(* C19 *)

\* the intervals a run can hold when a cycle begins: what the previous cycle
\* left, or what a 0x01 downlink delivered since has set
IntervalsBeforeCycle == TierOrDoubled \cup {v * 60000 : v \in ValueBytes}

\* C19: what a cycle leaves (emergencyMode, transmissionInterval, the transmit
\* decision and lastTransmission) is what it would leave from the same state
\* with any other interval in place of transmissionInterval, be it a tier value
\* or one a 0x01 downlink has set: an override delivered before the cycle
\* changes nothing the cycle decides.
C19_OverrideNeverDecides ==
  [][CycleStep =>
       \A ti \in IntervalsBeforeCycle :
         LET d == ProcessLocalDecisions(emergencyMode, ti, aiResult',
                                        currentReading')
             transmit == ShouldTransmitData(now, lastTransmission,
                                            d.emergencyMode,
                                            d.transmissionInterval, aiResult')
         IN  /\ d.emergencyMode = emergencyMode'
             /\ d.transmissionInterval = transmissionInterval'
             /\ sleepTimeSeconds' = 0 =>
                  /\ sendPending' = transmit
                  /\ lastTransmission' = IF transmit THEN now ELSE lastTransmission]_vars

\* a cycle ran right after a 0x01 downlink (into the critical-battery hold,
\* which keeps the record of the downlink) and left a tier interval
C19_Witness ==
  /\ lastDownlink = "0x01"
  /\ sleepTimeSeconds # 0
  /\ transmissionInterval \in TierOrDoubled

----------------------------------------------------------------------------
(* The cycle with the whole snapshot and the payload *)

\* A measurement is held as the product the encoder casts (value * scale), in
\* tenths: tilt and gyro in 1/10000, accel in 1/1000, temperature in 1/100,
\* pore_pressure, humidity and strain_gauge in 1/10 of their units.

\* validateSensorReadings: one bit per plausible group of measurements
ValidateSensorReadings(s) ==
  LET Abs(x) == IF x < 0 THEN -x ELSE x
  IN  (IF Abs(s.tilt_x) <= 10000 /\ Abs(s.tilt_y) <= 10000 THEN 1 ELSE 0)
      + (IF /\ Abs(s.accel_x) <= 20000 /\ Abs(s.accel_y) <= 20000
            /\ s.accel_z >= 5000 /\ s.accel_z <= 15000 THEN 2 ELSE 0)
      + (IF /\ Abs(s.gyro_x) <= 100000 /\ Abs(s.gyro_y) <= 100000
            /\ Abs(s.gyro_z) <= 100000 THEN 4 ELSE 0)
      + (IF s.pore_pressure >= 0 /\ s.pore_pressure <= 10000 THEN 8 ELSE 0)
      + (IF /\ s.temperature >= -4000 /\ s.temperature <= 7000
            /\ s.humidity >= 0 /\ s.humidity <= 1000 THEN 16 ELSE 0)
      + (IF Abs(s.strain_gauge) <= 10000 THEN 32 ELSE 0)

\* readAllSensors at millis() = t: the snapshot of battery voltage `voltage`,
\* measurements `sensors` and RSSI `rssi`.  timestamp = millis() / 1000 is
\* taken on the limbs as (t / 8) / 125; the location is the three float
\* constants (-23.5505, -46.6333, 760.0), each as its 4 bytes in memory;
\* tilt_z is 0.0.
ReadSnapshot(t, voltage, sensors, rssi) ==
  LET s == [sensors EXCEPT !.tilt_z = 0]
  IN  [timestamp |-> (t.hi * 8192 + t.lo \div 8) \div 125,
       latitude |-> <<109, 103, 188, 193>>,
       longitude |-> <<128, 136, 58, 194>>,
       elevation |-> <<0, 0, 62, 68>>,
       tilt_x |-> s.tilt_x, tilt_y |-> s.tilt_y, tilt_z |-> s.tilt_z,
       accel_x |-> s.accel_x, accel_y |-> s.accel_y, accel_z |-> s.accel_z,
       gyro_x |-> s.gyro_x, gyro_y |-> s.gyro_y, gyro_z |-> s.gyro_z,
       pore_pressure |-> s.pore_pressure, temperature |-> s.temperature,
       humidity |-> s.humidity, strain_gauge |-> s.strain_gauge,
       battery_voltage |-> voltage,
       quality_flags |-> ValidateSensorReadings(s),
       battery_level |-> CalculateBatteryLevel(voltage),
       signal_strength |-> rssi]

\* measurements of a pod at rest (the feature means): accel_z 9.81 m/s^2,
\* pore_pressure 125 kPa, 20 C, 60 %RH, strain 50
SensorsAtRest ==
  [tilt_x |-> 0, tilt_y |-> 0, tilt_z |-> 0,
   accel_x |-> 0, accel_y |-> 0, accel_z |-> 9810,
   gyro_x |-> 0, gyro_y |-> 0, gyro_z |-> 0,
   pore_pressure |-> 1250, temperature |-> 2000, humidity |-> 600,
   strain_gauge |-> 500]

\* measurements that differ from field to field, x tenths apart from a whole
\* step, half of them negative
SensorsOffBy(x) ==
  [tilt_x |-> x + 10, tilt_y |-> 0 - (x + 20), tilt_z |-> x + 30,
   accel_x |-> 0 - (x + 40), accel_y |-> x + 50, accel_z |-> 0 - (x + 60),
   gyro_x |-> x + 70, gyro_y |-> 0 - (x + 80), gyro_z |-> x + 90,
   pore_pressure |-> 0 - (x + 100), temperature |-> x + 110,
   humidity |-> 0 - (x + 120), strain_gauge |-> x + 130]

\* the measurements a cycle reads: at rest; within a step of small values, at
\* 0, 4, 5 and 9 tenths; and at the top of the int16_t range (strain_gauge
\* 32767.9)
SensorSamples ==
  {SensorsAtRest} \cup {SensorsOffBy(x) : x \in {0, 4, 5, 9, 327549}}

\* LoRaWAN.getRSSI(): the ends of the int8_t range and -90 dBm
RssiSamples == {0 - 128, 0 - 90, 127}

\* battery voltages and scores of the cycles that are followed with their payload
FrameVoltages == {2900, 3700}
FrameScores == {100, 700, 900}

\* case DEVICE_STATE_SEND with the whole snapshot: performSensorCycle, then
\* deviceState = CYCLE
PerformSensorCycleWithFrame(voltage, sensors, rssi, score, confidence) ==
  /\ Awake
  /\ deviceState = "SEND"
  /\ LET reading == ReadSnapshot(now, voltage, sensors, rssi)
         ai == RunEdgeAI(score, confidence)
         d == ProcessLocalDecisions(emergencyMode, transmissionInterval, ai, reading)
         transmit == ShouldTransmitData(now, lastTransmission, d.emergencyMode,
                                        d.transmissionInterval, ai)
     IN  /\ currentReading' = reading
         /\ aiResult' = ai
         /\ emergencyMode' = d.emergencyMode
         /\ transmissionInterval' = d.transmissionInterval
         /\ sleepTimeSeconds' = d.sleepTimeSeconds
         /\ alertFired' = d.alert
         /\ IF d.sleepTimeSeconds # 0
            THEN UNCHANGED <<deviceState, lastTransmission, sendPending,
                             lastDownlink, sendFailed, appData>>
            ELSE /\ deviceState' = "CYCLE"
                 /\ sendPending' = transmit
                 /\ appData' = IF transmit
                               THEN PrepareTxFrame(reading, ai, d.emergencyMode)
                               ELSE appData
                 /\ lastTransmission' = IF transmit THEN now ELSE lastTransmission
                 /\ lastDownlink' = "none"
                 /\ sendFailed' = FALSE
  /\ UNCHANGED <<deviceJoined, failedTransmissions, now, ticks>>

LoopSendWithFrame ==
  \E voltage \in FrameVoltages, sensors \in SensorSamples, rssi \in RssiSamples,
     score \in FrameScores :
    PerformSensorCycleWithFrame(voltage, sensors, rssi, score,
                                PlaceholderConfidence)

NextFrame ==
  \/ LoopInit
  \/ LoopJoin
  \/ LoopSendWithFrame
  \/ LoopCycleCalculated
  \/ OnSendSuccess

\* the program followed with its payload, its timer running for the calculated
\* sleep duration
SpecFrame == Init /\ [][NextFrame]_vars

----------------------------------------------------------------------------
(* C16, C17 *)

\* the 13 measurements of a snapshot in the order of the layout, in tenths
MeasurementTenths(reading) ==
  <<reading.tilt_x, reading.tilt_y, reading.tilt_z,
    reading.accel_x, reading.accel_y, reading.accel_z,
    reading.gyro_x, reading.gyro_y, reading.gyro_z,
    reading.pore_pressure, reading.temperature, reading.humidity,
    reading.strain_gauge>>

\* two bytes, high byte first, read as a signed 16-bit integer
DecodeInt16(high, low) ==
  LET u == high * 2^8 + low IN IF u >= 2^15 THEN u - 2^16 ELSE u

\* the payload is the one the latest cycle prepared from currentReading
FramePrepared == deviceState = "CYCLE" /\ sendPending

\* C16: the payload a cycle prepares is 51 bytes (at most 64), each in 0..255,
\* with the timestamp big-endian at offsets 0-3, the location at 4-15, the 13
\* measurements as big-endian int16 at 16-41, quality flags at 42, battery
\* level at 43, signal strength + 128 at 44, the anomaly score at 45-46, the
\* risk level at 47, the confidence at 48-49 and at 50 the emergency flag, 1
\* exactly when emergencyMode is true.  (Offset k is appData[k + 1].)
C16_FrameLayout ==
  FramePrepared =>
    /\ Len(appData) = 51
    /\ Len(appData) <= 64
    /\ \A k \in 1..Len(appData) : appData[k] \in 0..255
    /\ appData[1] * 2^24 + appData[2] * 2^16 + appData[3] * 2^8 + appData[4]
         = currentReading.timestamp
    /\ SubSeq(appData, 5, 8) = currentReading.latitude
    /\ SubSeq(appData, 9, 12) = currentReading.longitude
    /\ SubSeq(appData, 13, 16) = currentReading.elevation
    /\ \A i \in 1..13 :
         LET x == MeasurementTenths(currentReading)[i]
             q == DecodeInt16(appData[15 + 2 * i], appData[16 + 2 * i])
         IN  q * 10 <= x + 9 /\ x <= q * 10 + 9
    /\ appData[43] = currentReading.quality_flags
    /\ appData[44] = currentReading.battery_level
    /\ appData[45] = currentReading.signal_strength + 128
    /\ appData[46] * 2^8 + appData[47] = aiResult.anomaly_score
    /\ appData[48] = aiResult.risk_level
    /\ appData[49] * 2^8 + appData[50] = aiResult.confidence
    /\ appData[51] = IF emergencyMode THEN 1 ELSE 0

\* a cycle in emergency mode prepared a payload of 51 bytes whose last byte is 1
C16_Witness ==
  /\ FramePrepared
  /\ emergencyMode
  /\ Len(appData) = 51
  /\ appData[51] = 1

\* C17: every measurement of the snapshot, decoded from its two bytes of the
\* payload (signed 16-bit, divided by the scale), is within half a step (5
\* tenths) of the original; and the signal strength byte minus 128 is the
\* original signal_strength.
C17_RoundTripHalfStep ==
  FramePrepared =>
    /\ \A i \in 1..13 :
         LET x == MeasurementTenths(currentReading)[i]
             q == DecodeInt16(appData[15 + 2 * i], appData[16 + 2 * i])
         IN  q * 10 - x <= 5 /\ x - q * 10 <= 5
    /\ appData[45] - 128 = currentReading.signal_strength

====
